---- MODULE Spec2Model ----
(***************************************************************************)
(* Model of the retrieval-augmented mapping engine of GRC_AI:              *)
(*   rag_engine.py  load_crosswalk_db, get_framework_mappings,             *)
(*                  ingest_policy, query_policy                            *)
(*   app.py         ollama_chat_with_retry, sanitize_input, extract_json,  *)
(*                  the analysis flow                                      *)
(*   scripts/reload_database.py                                            *)
(*                                                                         *)
(* Texts are sequences of tokens.  A token is a run of characters: a       *)
(* single newline, a run of blanks, or a run of n non-blank characters     *)
(* carrying a tag that identifies its content.  Distances are in tenths    *)
(* (the default threshold 1.4 is 14).                                      *)
(***************************************************************************)
EXTENDS Integers, Sequences, FiniteSets, TLC

VARIABLES
    csv,                    \* framework_crosswalk.csv: [exists, rows]
    crosswalk_collection,   \* the "framework_crosswalk" collection: sequence of
                            \* [id, document, metadata]
    company_policies,       \* the "company_policies" collection the client holds:
                            \* sequence of [id, document]
    policy_collection,      \* the collection the global refers to: "live" (the
                            \* one the client holds) or "stale" (a deleted one)
    ret,                    \* the last rag_engine call and what it returned
    firstLoad,              \* history: the rows of the load that filled the store
    lastIngested,           \* history: the document of the last ingest_policy
                            \* that returned success
    rt,                     \* ollama_chat_with_retry: the frame of the call
    app,                    \* app.py: the session of the analysis flow and what
                            \* its last run showed
    job                     \* an ingest_policy and a query_policy running
                            \* unserialized: their frames

vars ==
    <<csv, crosswalk_collection, company_policies, policy_collection, ret, firstLoad,
      lastIngested, rt, app, job>>

(***************************************************************************)
(* Bounds                                                                  *)
(***************************************************************************)
MaxRows == 2            \* rows of a corpus file
MaxAttemptsBound == 4   \* largest max_retries a caller passes

(***************************************************************************)
(* Texts                                                                   *)
(***************************************************************************)
NL == [tag |-> "\n", n |-> 1]
WS(k) == [tag |-> " ", n |-> k]
Tx(t, k) == [tag |-> t, n |-> k]

IsSpace(tok) == tok.tag \in {"\n", " "}

RECURSIVE TextLen(_)
TextLen(t) == IF t = <<>> THEN 0 ELSE Head(t).n + TextLen(Tail(t))

\* str.strip(): leading and trailing whitespace removed
RECURSIVE LStrip(_)
LStrip(t) == IF t # <<>> /\ IsSpace(Head(t)) THEN LStrip(Tail(t)) ELSE t

RECURSIVE RStrip(_)
RStrip(t) ==
    IF t # <<>> /\ IsSpace(t[Len(t)]) THEN RStrip(SubSeq(t, 1, Len(t) - 1)) ELSE t

Strip(t) == RStrip(LStrip(t))

\* text.split('\n\n'): scan left to right, two adjacent newlines end a piece;
\* the result always has at least one piece (''.split('\n\n') == [''])
RECURSIVE SplitFrom(_, _, _)
SplitFrom(t, cur, acc) ==
    IF t = <<>> THEN Append(acc, cur)
    ELSE IF Len(t) >= 2 /\ t[1] = NL /\ t[2] = NL
         THEN SplitFrom(SubSeq(t, 3, Len(t)), <<>>, Append(acc, cur))
         ELSE SplitFrom(Tail(t), Append(cur, Head(t)), acc)

Split(t) == SplitFrom(t, <<>>, <<>>)

\* "\n\n".join(parts)
RECURSIVE Join(_)
Join(parts) ==
    IF parts = <<>> THEN <<>>
    ELSE IF Len(parts) = 1 THEN parts[1]
    ELSE parts[1] \o <<NL, NL>> \o Join(Tail(parts))

(***************************************************************************)
(* Embedding provider and distance                                         *)
(***************************************************************************)
\* The place of a content tag in the embedding space
Place(tag) ==
    CASE tag \in {"weak_pw_desc", "f_pw_exact", "A1", "q_near_A"} -> 0
      [] tag \in {"f_pw_like", "A2", "B1", "C3"} -> 1
      [] tag \in {"shared_desc", "B2", "L1", "C1", "q_mid"} -> 2
      [] tag \in {"L2", "L3", "O1"} -> 3
      [] tag \in {"f_coffee", "L4", "C2", "q_far"} -> 5
      [] OTHER -> 4

\* default_ef: deterministic, the same at indexing and at query time
Embed(t) == IF Strip(t) = <<>> THEN 4 ELSE Place(Head(Strip(t)).tag)

\* The collection's distance (squared L2), in tenths
Dist(a, b) == 7 * (Embed(a) - Embed(b)) * (Embed(a) - Embed(b))

(***************************************************************************)
(* Collections of the vector store                                         *)
(***************************************************************************)
None == <<>>
Some(x) == <<x>>

Min(a, b) == IF a < b THEN a ELSE b

Range(s) == {s[i] : i \in DOMAIN s}

\* The sequences over S of length 0 .. n
SeqsOver(S, n) == UNION {[1..k -> S] : k \in 0..n}

\* collection.query(query_texts=[q], n_results=k): the positions of the
\* min(k, count) nearest entries, nearest first; entries at equal distance
\* come in an order the index chooses
Ranked(coll, q, k) ==
    LET m == Min(k, Len(coll))
        d(i) == Dist(q, coll[i].document)
    IN  {s \in [1..m -> 1..Len(coll)] :
            /\ \A i, j \in 1..m : i < j => s[i] # s[j] /\ d(s[i]) <= d(s[j])
            /\ \A i \in 1..m : \A o \in (1..Len(coll)) \ Range(s) : d(s[i]) <= d(o)}

\* collection.add(...): entries whose id is already held are skipped
RECURSIVE CollectionAdd(_, _)
CollectionAdd(coll, entries) ==
    IF entries = <<>> THEN coll
    ELSE LET e == Head(entries)
             held == \E i \in DOMAIN coll : coll[i].id = e.id
         IN  CollectionAdd(IF held THEN coll ELSE Append(coll, e), Tail(entries))

(***************************************************************************)
(* The corpus file                                                         *)
(***************************************************************************)
RowWeak ==
    [risk_pattern |-> "weak_password", description |-> <<Tx("weak_pw_desc", 27)>>,
     iso_27001 |-> "A.9.4.3", soc_2 |-> "CC6.1", hipaa |-> "164.308(a)(5)",
     nist_csf |-> "PR.AC-1"]
RowShared ==
    [risk_pattern |-> "shared_credentials", description |-> <<Tx("shared_desc", 40)>>,
     iso_27001 |-> "A.9.2.4", soc_2 |-> "CC6.2", hipaa |-> "164.312(a)(2)",
     nist_csf |-> "PR.AC-4"]
RowDefault ==
    [risk_pattern |-> "default_password", description |-> <<Tx("weak_pw_desc", 27)>>,
     iso_27001 |-> "A.9.4.2", soc_2 |-> "CC6.1", hipaa |-> "N/A",
     nist_csf |-> "PR.AC-7"]

Rows == {RowWeak, RowShared, RowDefault}

\* The corpora of at most n rows; risk_pattern is unique within a corpus
Corpora(n) ==
    {r \in UNION {[1..k -> Rows] : k \in 0..n} :
        \A i, j \in DOMAIN r : i # j => r[i].risk_pattern # r[j].risk_pattern}

NoCorpusFile == [exists |-> FALSE, rows |-> <<>>]

CorpusFiles ==
    {NoCorpusFile}
        \cup {[exists |-> TRUE, rows |-> r] : r \in Corpora(MaxRows)}

\* Rows indexed under their risk_pattern instead of their description
RowEntryByName(rows, i) ==
    [id |-> i - 1,
     document |-> <<Tx(rows[i].risk_pattern, 16)>>,
     metadata |-> [pattern_name |-> rows[i].risk_pattern,
                   iso_27001 |-> rows[i].iso_27001,
                   soc_2 |-> rows[i].soc_2,
                   hipaa |-> rows[i].hipaa,
                   nist_csf |-> rows[i].nist_csf]]

\* lines 51-62: ids, documents and metadatas of the rows of the file
RowEntry(rows, i) ==
    [id |-> i - 1,
     document |-> rows[i].description,
     metadata |-> [pattern_name |-> rows[i].risk_pattern,
                   iso_27001 |-> rows[i].iso_27001,
                   soc_2 |-> rows[i].soc_2,
                   hipaa |-> rows[i].hipaa,
                   nist_csf |-> rows[i].nist_csf]]

RowEntries(rows) == [i \in 1..Len(rows) |-> RowEntry(rows, i)]

(***************************************************************************)
(* Calls and results                                                       *)
(***************************************************************************)
\* op: the function called; arg, thr: its arguments (for load_crosswalk_db, arg
\* is the corpus file as the call found it); val: what it returned;
\* raised: an exception left the function; queried: it issued a similarity
\* query; fault: the store operation that raised during it; was: the number
\* of entries of the store it works on when it was called
Call(op, arg, thr, val, raised, queried, fault, was) ==
    [op |-> op, arg |-> arg, thr |-> thr, val |-> val, raised |-> raised,
     queried |-> queried, fault |-> fault, was |-> was]

NoDoc == [name |-> "none", readable |-> FALSE, pages |-> <<>>]

(***************************************************************************)
(* load_crosswalk_db                                                       *)
(***************************************************************************)
LoadFaults == {"none", "count", "read", "add"}

\* A loader that reports success when the corpus file is missing
LoadBodyMissingOk(f) ==
    IF f = "count" THEN [err |-> "count", val |-> FALSE, store |-> crosswalk_collection]
    ELSE IF Len(crosswalk_collection) > 0
    THEN [err |-> "none", val |-> TRUE, store |-> crosswalk_collection]
    ELSE IF ~csv.exists THEN [err |-> "none", val |-> TRUE, store |-> crosswalk_collection]
    ELSE IF f \in {"read", "add"} THEN [err |-> f, val |-> FALSE, store |-> crosswalk_collection]
    ELSE IF csv.rows = <<>>
    THEN [err |-> "add_nothing", val |-> FALSE, store |-> crosswalk_collection]
    ELSE [err |-> "none", val |-> TRUE,
          store |-> CollectionAdd(crosswalk_collection, RowEntries(csv.rows))]

\* A loader without the count() > 0 test of line 39
LoadBodyNoCount(f) ==
    IF f = "count" THEN [err |-> "count", val |-> FALSE, store |-> crosswalk_collection]
    ELSE IF ~csv.exists THEN [err |-> "none", val |-> FALSE, store |-> crosswalk_collection]
    ELSE IF f \in {"read", "add"} THEN [err |-> f, val |-> FALSE, store |-> crosswalk_collection]
    ELSE IF csv.rows = <<>>
    THEN [err |-> "add_nothing", val |-> FALSE, store |-> crosswalk_collection]
    ELSE [err |-> "none", val |-> TRUE,
          store |-> CollectionAdd(crosswalk_collection, RowEntries(csv.rows))]

\* The try block (lines 38-71): err names the step that raised, val is the
\* value of the return statement reached, store the collection afterwards
LoadBodyOn(store, f) ==
    IF f = "count" THEN [err |-> "count", val |-> FALSE, store |-> store]
    ELSE IF Len(store) > 0
    THEN [err |-> "none", val |-> TRUE, store |-> store]
    ELSE IF ~csv.exists THEN [err |-> "none", val |-> FALSE, store |-> store]
    ELSE IF f = "read" THEN [err |-> "read", val |-> FALSE, store |-> store]
    ELSE IF f = "add" THEN [err |-> "add", val |-> FALSE, store |-> store]
    ELSE IF csv.rows = <<>>                    \* add() refuses an empty list of ids
    THEN [err |-> "add_nothing", val |-> FALSE, store |-> store]
    ELSE [err |-> "none", val |-> TRUE,
          store |-> CollectionAdd(store, RowEntries(csv.rows))]

\* The loader on the collection the running process holds
LoadBody(f) == LoadBodyOn(crosswalk_collection, f)

\* lines 73-75: except Exception: return False
LoadReturn(o) ==
    [raised |-> FALSE, val |-> Some(IF o.err # "none" THEN FALSE ELSE o.val)]

load_crosswalk_db(F) ==
    \E f \in F :
        LET o == LoadBody(f)
            r == LoadReturn(o)
        IN
        /\ crosswalk_collection' = o.store
        /\ firstLoad' = IF crosswalk_collection = <<>> /\ o.store # <<>> THEN csv.rows
                        ELSE firstLoad
        /\ ret' = Call("load", csv, 0, r.val, r.raised, FALSE, o.err, Len(crosswalk_collection))
        /\ UNCHANGED <<app, job, csv, company_policies, policy_collection, lastIngested, rt>>

\* The environment edits, replaces or removes framework_crosswalk.csv
EditCorpus ==
    /\ \E c \in CorpusFiles : c # csv /\ csv' = c
    /\ UNCHANGED <<app, job, crosswalk_collection, company_policies, policy_collection, ret,
                   firstLoad, lastIngested, rt>>

(***************************************************************************)
(* get_framework_mappings                                                  *)
(***************************************************************************)
DefaultThreshold == 14

Findings ==
    {<<Tx("f_pw_exact", 27)>>, <<Tx("f_pw_like", 48)>>, <<Tx("f_coffee", 28)>>}
        \cup {r.description : r \in Rows}

Thresholds == {7, DefaultThreshold}

GetFaults == {"none", "count", "query"}

\* An acceptance test that lets the threshold itself through
AcceptAtThreshold(distance, threshold) == distance <= threshold

\* line 105: the acceptance test
Accept(distance, threshold) == distance < threshold

\* A resolver without the count() == 0 test of lines 91-92: the query is
\* issued on the empty collection too and finds nothing
GetBodiesNoCount(finding_text, threshold, f) ==
    IF f = "count" THEN {[err |-> "count", val |-> None, queried |-> FALSE]}
    ELSE IF f = "query" THEN {[err |-> "query", val |-> None, queried |-> TRUE]}
    ELSE IF Len(crosswalk_collection) = 0
    THEN {[err |-> "none", val |-> None, queried |-> TRUE]}
    ELSE {LET top == crosswalk_collection[r[1]]
              distance == Dist(finding_text, top.document)
          IN  [err |-> "none",
               val |-> IF Accept(distance, threshold) THEN Some(top.metadata) ELSE None,
               queried |-> TRUE]
          : r \in Ranked(crosswalk_collection, finding_text, 1)}

\* The try block (lines 91-113), one body for each result the query can give
GetBodies(finding_text, threshold, f) ==
    IF f = "count" THEN {[err |-> "count", val |-> None, queried |-> FALSE]}
    ELSE IF Len(crosswalk_collection) = 0 THEN {[err |-> "none", val |-> None, queried |-> FALSE]}
    ELSE IF f = "query" THEN {[err |-> "query", val |-> None, queried |-> TRUE]}
    ELSE {LET top == crosswalk_collection[r[1]]
              distance == Dist(finding_text, top.document)
          IN  [err |-> "none",
               val |-> IF Accept(distance, threshold) THEN Some(top.metadata) ELSE None,
               queried |-> TRUE]
          : r \in Ranked(crosswalk_collection, finding_text, 1)}

\* lines 115-117: except Exception: return None
GetReturn(o) == [raised |-> FALSE, val |-> IF o.err # "none" THEN None ELSE o.val]

get_framework_mappings(F) ==
    \E finding_text \in Findings, threshold \in Thresholds, f \in F :
        \E o \in GetBodies(finding_text, threshold, f) :
            /\ ret' = Call("get", finding_text, threshold, GetReturn(o).val,
                           GetReturn(o).raised, o.queried, o.err, Len(crosswalk_collection))
            /\ UNCHANGED <<app, job, csv, crosswalk_collection, company_policies,
                           policy_collection, firstLoad,
                           lastIngested, rt>>

(***************************************************************************)
(* Policy documents                                                        *)
(***************************************************************************)
MinChunkLen == 50

Page(t) == [kind |-> "text", text |-> t]
PageNoText == [kind |-> "none", text |-> <<>>]      \* extract_text() gives None
PageBroken == [kind |-> "raise", text |-> <<>>]     \* extract_text() raises

DocA ==
    [name |-> "A", readable |-> TRUE,
     pages |-> <<Page(<<Tx("A1", 60), NL, NL, NL, Tx("A2", 70)>>)>>]
DocB ==
    [name |-> "B", readable |-> TRUE,
     pages |-> <<Page(<<Tx("B1", 30)>>),
                 Page(<<Tx("B1b", 30), NL, NL, Tx("hdr", 10), NL, NL, Tx("B2", 51)>>)>>]
DocScenario ==
    [name |-> "Scenario", readable |-> TRUE,
     pages |-> <<Page(<<Tx("SectionA", 15), NL, NL>>), Page(<<Tx("SectionB", 50)>>)>>]
DocShort ==
    [name |-> "Short", readable |-> TRUE,
     pages |-> <<Page(<<Tx("hdr", 10), NL, NL>>), PageNoText,
                 Page(<<WS(60), Tx("pg", 2), NL>>)>>]
DocLong ==
    [name |-> "Long", readable |-> TRUE,
     pages |-> <<Page(<<Tx("L1", 51), NL, NL, Tx("L2", 80), NL, NL>>),
                 Page(<<Tx("L3", 55), NL, NL, Tx("L4", 90)>>)>>]
DocThree ==
    [name |-> "Three", readable |-> TRUE,
     pages |-> <<Page(<<Tx("C1", 64), NL, NL, Tx("C2", 52), WS(3), NL, NL, WS(2),
                        Tx("C3", 75)>>)>>]
DocOne ==
    [name |-> "One", readable |-> TRUE,
     pages |-> <<Page(<<Tx("title", 12), NL, NL, Tx("O1", 120), NL>>)>>]
DocEmpty == [name |-> "Empty", readable |-> TRUE, pages |-> <<>>]
DocMissing == [name |-> "Missing", readable |-> FALSE, pages |-> <<>>]
DocTorn ==
    [name |-> "Torn", readable |-> TRUE,
     pages |-> <<Page(<<Tx("T1", 60)>>), PageBroken>>]

Docs ==
    {DocA, DocB, DocScenario, DocShort, DocLong, DocThree, DocOne, DocEmpty, DocMissing,
     DocTorn}

\* lines 127-129: text += page.extract_text() or ""
RECURSIVE PagesText(_)
PagesText(pages) ==
    IF pages = <<>> THEN <<>> ELSE Head(pages).text \o PagesText(Tail(pages))

\* line 148: the chunks worth keeping
Keep(chunk) == TextLen(Strip(chunk)) > MinChunkLen

\* lines 145-150: ids policy_{i} and documents of the kept chunks, i from 0
RECURSIVE KeptFrom(_, _)
KeptFrom(chunks, i) ==
    IF i > Len(chunks) THEN <<>>
    ELSE (IF Keep(chunks[i]) THEN <<[id |-> i - 1, document |-> chunks[i]]>> ELSE <<>>)
             \o KeptFrom(chunks, i + 1)

Chunks(doc) == Split(PagesText(doc.pages))
Kept(doc) == KeptFrom(Chunks(doc), 1)

(***************************************************************************)
(* ingest_policy                                                           *)
(***************************************************************************)
IngestFaults == {"none", "count", "delete", "create", "add"}

\* An ingestion that adds to the collection as it finds it (no lines 138-142)
IngestBodyNoClear(doc, f) ==
    LET same(e) == [err |-> e, store |-> company_policies, handle |-> policy_collection, n |-> 0]
        docs == Kept(doc)
    IN  IF ~doc.readable THEN same("open")
        ELSE IF \E i \in DOMAIN doc.pages : doc.pages[i].kind = "raise" THEN same("extract")
        ELSE IF policy_collection = "stale" THEN same("stale")
        ELSE IF f = "count" THEN same("count")
        ELSE IF docs # <<>> /\ f = "add" THEN same("add")
        ELSE [err |-> "none", store |-> CollectionAdd(company_policies, docs),
              handle |-> policy_collection, n |-> Len(docs)]

\* An ingestion that adds the chunks one call at a time: the add that raises
\* comes after the first chunk is in
IngestBodyAddEach(doc, f) ==
    LET same(e) == [err |-> e, store |-> company_policies, handle |-> policy_collection, n |-> 0]
        cleared == IF Len(company_policies) > 0 THEN <<>> ELSE company_policies
        docs == Kept(doc)
    IN  IF ~doc.readable THEN same("open")
        ELSE IF \E i \in DOMAIN doc.pages : doc.pages[i].kind = "raise" THEN same("extract")
        ELSE IF policy_collection = "stale" THEN same("stale")
        ELSE IF f = "count" THEN same("count")
        ELSE IF Len(company_policies) > 0 /\ f = "delete" THEN same("delete")
        ELSE IF Len(company_policies) > 0 /\ f = "create"
        THEN [err |-> "create", store |-> <<>>, handle |-> "stale", n |-> 0]
        ELSE IF docs # <<>> /\ f = "add"
        THEN [err |-> "add", store |-> CollectionAdd(cleared, <<Head(docs)>>),
              handle |-> policy_collection, n |-> 0]
        ELSE [err |-> "none", store |-> CollectionAdd(cleared, docs),
              handle |-> policy_collection, n |-> Len(docs)]

\* An ingestion that clears the collection only when it has chunks to add
IngestBodyClearIfDocs(doc, f) ==
    LET same(e) == [err |-> e, store |-> company_policies, handle |-> policy_collection, n |-> 0]
        docs == Kept(doc)
        cleared == IF Len(company_policies) > 0 /\ docs # <<>> THEN <<>> ELSE company_policies
    IN  IF ~doc.readable THEN same("open")
        ELSE IF \E i \in DOMAIN doc.pages : doc.pages[i].kind = "raise" THEN same("extract")
        ELSE IF policy_collection = "stale" THEN same("stale")
        ELSE IF f = "count" THEN same("count")
        ELSE IF Len(company_policies) > 0 /\ docs # <<>> /\ f = "delete" THEN same("delete")
        ELSE IF Len(company_policies) > 0 /\ docs # <<>> /\ f = "create"
        THEN [err |-> "create", store |-> <<>>, handle |-> "stale", n |-> 0]
        ELSE IF docs # <<>> /\ f = "add"
        THEN [err |-> "add", store |-> cleared, handle |-> policy_collection, n |-> 0]
        ELSE [err |-> "none", store |-> CollectionAdd(cleared, docs),
              handle |-> policy_collection, n |-> Len(docs)]

\* The try block (lines 124-158): err names the step that raised, store and
\* handle are the collection and the global afterwards, n is len(docs)
IngestBody(doc, f) ==
    LET same(e) == [err |-> e, store |-> company_policies, handle |-> policy_collection, n |-> 0]
        cleared == IF Len(company_policies) > 0 THEN <<>> ELSE company_policies
        docs == Kept(doc)
    IN  IF ~doc.readable THEN same("open")
        ELSE IF \E i \in DOMAIN doc.pages : doc.pages[i].kind = "raise" THEN same("extract")
        ELSE IF policy_collection = "stale" THEN same("stale")
        ELSE IF f = "count" THEN same("count")
        ELSE IF Len(company_policies) > 0 /\ f = "delete" THEN same("delete")
        ELSE IF Len(company_policies) > 0 /\ f = "create"
        THEN [err |-> "create", store |-> <<>>, handle |-> "stale", n |-> 0]
        ELSE IF docs # <<>> /\ f = "add"
        THEN [err |-> "add", store |-> cleared, handle |-> policy_collection, n |-> 0]
        ELSE [err |-> "none", store |-> CollectionAdd(cleared, docs),
              handle |-> policy_collection, n |-> Len(docs)]

\* A handler whose try block ends before the collection is touched: errors of
\* the store leave the function
IngestReturnStoreRaises(o) ==
    IF o.err \in {"stale", "count", "delete", "create", "add"}
    THEN [raised |-> TRUE, val |-> None]
    ELSE IF o.err # "none"
    THEN [raised |-> FALSE, val |-> <<FALSE, [text |-> o.err, n |-> 0]>>]
    ELSE [raised |-> FALSE, val |-> <<TRUE, [text |-> "Ingested", n |-> o.n]>>]

\* line 158 and lines 160-161: (True, "Ingested n policy sections") or (False, str(e))
IngestReturn(o) ==
    IF o.err # "none"
    THEN [raised |-> FALSE, val |-> <<FALSE, [text |-> o.err, n |-> 0]>>]
    ELSE [raised |-> FALSE, val |-> <<TRUE, [text |-> "Ingested", n |-> o.n]>>]

ingest_policy(F) ==
    \E doc \in Docs, f \in F :
        LET o == IngestBody(doc, f)
            r == IngestReturn(o)
        IN  /\ company_policies' = o.store
            /\ policy_collection' = o.handle
            /\ lastIngested' = IF ~r.raised /\ r.val[1] THEN doc ELSE lastIngested
            /\ ret' = Call("ingest", doc, 0, r.val, r.raised, FALSE, o.err, Len(company_policies))
            /\ UNCHANGED <<app, job, csv, crosswalk_collection, firstLoad, rt>>

(***************************************************************************)
(* query_policy                                                            *)
(***************************************************************************)
TopK == 3

Questions ==
    {<<Tx("q_near_A", 30)>>, <<Tx("q_mid", 44)>>, <<Tx("q_far", 12)>>, <<WS(4)>>}

QueryFaults == {"none", "count", "query"}

\* A retriever that keeps only the results under the resolver's threshold
QueryBodiesGated(question, f) ==
    IF policy_collection = "stale" THEN {[err |-> "stale", val |-> None, queried |-> FALSE]}
    ELSE IF f = "count" THEN {[err |-> "count", val |-> None, queried |-> FALSE]}
    ELSE IF Len(company_policies) = 0 THEN {[err |-> "none", val |-> None, queried |-> FALSE]}
    ELSE IF f = "query" THEN {[err |-> "query", val |-> None, queried |-> TRUE]}
    ELSE {[err |-> "none",
           val |-> Some(Join(SelectSeq([i \in DOMAIN r |-> company_policies[r[i]].document],
                                       LAMBDA d : Dist(question, d) < DefaultThreshold))),
           queried |-> TRUE]
          : r \in Ranked(company_policies, question, TopK)}

\* The try block (lines 168-178), one body for each result the query can give
QueryBodies(question, f) ==
    IF policy_collection = "stale" THEN {[err |-> "stale", val |-> None, queried |-> FALSE]}
    ELSE IF f = "count" THEN {[err |-> "count", val |-> None, queried |-> FALSE]}
    ELSE IF Len(company_policies) = 0 THEN {[err |-> "none", val |-> None, queried |-> FALSE]}
    ELSE IF f = "query" THEN {[err |-> "query", val |-> None, queried |-> TRUE]}
    ELSE {[err |-> "none",
           val |-> Some(Join([i \in DOMAIN r |-> company_policies[r[i]].document])),
           queried |-> TRUE]
          : r \in Ranked(company_policies, question, TopK)}

\* lines 180-182: except Exception: return None
QueryReturn(o) == [raised |-> FALSE, val |-> IF o.err # "none" THEN None ELSE o.val]

query_policy(F) ==
    \E question \in Questions, f \in F :
        \E o \in QueryBodies(question, f) :
            /\ ret' = Call("query", question, 0, QueryReturn(o).val,
                           QueryReturn(o).raised, o.queried, o.err, Len(company_policies))
            /\ UNCHANGED <<app, job, csv, crosswalk_collection, company_policies,
                           policy_collection, firstLoad,
                           lastIngested, rt>>

\* The process starts again: lines 13-30 run, the stores are what was persisted
ImportModule ==
    /\ policy_collection' = "live"
    /\ UNCHANGED <<app, job, csv, crosswalk_collection, company_policies, ret, firstLoad,
                   lastIngested, rt>>

(***************************************************************************)
(* scripts/reload_database.py                                              *)
(***************************************************************************)
\* A reload that leaves ./chroma_db in place
WipedKept(store) == store

\* lines 9-12 and the import of line 15: ./chroma_db is removed and the
\* collection is created again, empty
Wiped(store) == <<>>

\* The whole script: remove the directory, import rag_engine, run the loader
reload_database ==
    LET fresh == Wiped(crosswalk_collection)
        o == LoadBodyOn(fresh, "none")
        r == LoadReturn(o)
    IN
    /\ crosswalk_collection' = o.store
    /\ company_policies' = Wiped(company_policies)
    /\ policy_collection' = "live"
    /\ firstLoad' = IF fresh # <<>> THEN firstLoad
                    ELSE IF o.store # <<>> THEN csv.rows ELSE <<>>
    /\ lastIngested' = NoDoc
    /\ ret' = Call("reload", csv, 0, r.val, r.raised, FALSE, o.err, Len(crosswalk_collection))
    /\ UNCHANGED <<app, job, csv, rt>>

(***************************************************************************)
(* ollama_chat_with_retry                                                  *)
(***************************************************************************)
OLLAMA_MAX_RETRIES == 3

RECURSIVE Pow2(_)
Pow2(k) == IF k <= 0 THEN 1 ELSE 2 * Pow2(k - 1)

ChatArgs ==
    {[model |-> "llama3.2", messages |-> m, options |-> o] :
        m \in {"finding_1", "finding_2"}, o \in {"timeout_120"}}
Responses == {"response_a", "response_b"}
ChatErrors == {"timeout", "refused"}

MaxRetriesArgs == 0..MaxAttemptsBound

\* pc: "idle" no call yet, "loop" about to run the iteration `attempt`,
\* "returned" / "raised" the call is over with `out`;
\* calls: the arguments of each ollama.chat call made, errors: what each failed
\* call raised, sleeps: the argument of each time.sleep call
RtIdle ==
    [pc |-> "idle", args |-> [model |-> "", messages |-> "", options |-> ""],
     max_retries |-> OLLAMA_MAX_RETRIES, attempt |-> 0, calls |-> <<>>,
     errors |-> <<>>, sleeps |-> <<>>, out |-> None]

\* line 117: the call made in an iteration
ChatCall(frame) ==
    [model |-> frame.args.model, messages |-> frame.args.messages,
     options |-> frame.args.options]

\* A backoff that grows by one second instead of doubling
WaitTimeLinear(attempt) == attempt + 1

\* line 126: the wait after a failed attempt that is not the last
WaitTime(attempt) == Pow2(attempt)

\* line 120: the last attempt
IsLastAttempt(attempt, max_retries) == attempt = max_retries - 1

\* line 115: the loop runs for attempt = 0 .. max_retries - 1; past it the
\* function ends without a return statement
LoopOrEnd(frame) ==
    IF frame.attempt < frame.max_retries THEN frame
    ELSE [frame EXCEPT !.pc = "returned", !.out = None]

\* The caller calls ollama_chat_with_retry(model, messages, options, max_retries)
RetryCall ==
    /\ rt.pc \in {"idle", "returned", "raised"}
    /\ \E a \in ChatArgs, m \in MaxRetriesArgs :
        rt' = LoopOrEnd([RtIdle EXCEPT !.pc = "loop", !.args = a, !.max_retries = m])
    /\ UNCHANGED <<app, job, csv, crosswalk_collection, company_policies, policy_collection, ret,
                   firstLoad, lastIngested>>

\* lines 117-118: the model answers, the response is returned
ChatOk ==
    /\ rt.pc = "loop"
    /\ \E r \in Responses :
        rt' = [rt EXCEPT !.calls = Append(@, ChatCall(rt)), !.pc = "returned",
                         !.out = Some(r)]
    /\ UNCHANGED <<app, job, csv, crosswalk_collection, company_policies, policy_collection, ret,
                   firstLoad, lastIngested>>

\* lines 119-128: the model call raises
ChatFail ==
    /\ rt.pc = "loop"
    /\ \E e \in ChatErrors :
        LET called == [rt EXCEPT !.calls = Append(@, ChatCall(rt)),
                                 !.errors = Append(@, e)]
        IN  rt' = IF IsLastAttempt(rt.attempt, rt.max_retries)
                  THEN [called EXCEPT !.pc = "raised", !.out = Some(e)]
                  ELSE LoopOrEnd([called EXCEPT
                                     !.sleeps = Append(@, WaitTime(rt.attempt)),
                                     !.attempt = @ + 1])
    /\ UNCHANGED <<app, job, csv, crosswalk_collection, company_policies, policy_collection, ret,
                   firstLoad, lastIngested>>

(***************************************************************************)
(* app.py: sanitize_input                                                  *)
(***************************************************************************)
MAX_INPUT_LENGTH == 10000

\* A run of k control characters (\x00-\x08, \x0b, \x0c, \x0e-\x1f, \x7f)
Ctl(k) == [tag |-> "ctl", n |-> k]

\* line 75: re.sub removes the control characters, newlines and tabs stay
RemoveControl(t) == SelectSeq(t, LAMBDA tok : tok.tag # "ctl")

\* lines 66-77: the length is tested on the text as given, the strip comes last
sanitize_input(text) ==
    IF text = <<>> \/ TextLen(text) > MAX_INPUT_LENGTH THEN None
    ELSE Some(Strip(RemoveControl(text)))

\* What the user types into the audit text area
Inputs ==
    {<<>>,
     <<WS(3), NL, WS(4)>>,
     <<Ctl(2)>>,
     <<Tx("f_coffee", MAX_INPUT_LENGTH)>>,
     <<Tx("f_coffee", MAX_INPUT_LENGTH + 1)>>,
     <<Tx("f_coffee", MAX_INPUT_LENGTH - 1), WS(2)>>,
     <<Ctl(1), Tx("f_pw_like", 48), NL>>,
     <<Tx("f_pw_exact", 27)>>,
     <<Tx("f_coffee", 28)>>}

(***************************************************************************)
(* app.py: extract_json                                                    *)
(***************************************************************************)
\* The text of the generative model.  prose: words stand around the JSON;
\* top: what the JSON part is: "obj", "list", "scalar", "null", "truncated"
\* (an object cut off before its end) or "none" (no JSON); key: "risks" when
\* the object has that key, "other" when it has other keys only, "-" when it
\* is {}; inner: the kind of the value under "risks"; items: the kinds of the
\* complete members of the list (the top list, or the one under "risks")
ModelText(prose, top, key, inner, items) ==
    [prose |-> prose, top |-> top, key |-> key, inner |-> inner, items |-> items]

ModelTexts ==
    {ModelText(FALSE, "obj", "risks", "list", <<"obj", "obj">>),
     ModelText(TRUE, "obj", "risks", "list", <<"obj", "obj">>),
     ModelText(FALSE, "obj", "risks", "list", <<>>),
     ModelText(FALSE, "obj", "risks", "list", <<"obj", "scalar">>),
     ModelText(FALSE, "obj", "risks", "scalar", <<>>),
     ModelText(FALSE, "obj", "other", "-", <<>>),
     ModelText(FALSE, "obj", "-", "-", <<>>),
     ModelText(FALSE, "list", "-", "-", <<"obj", "obj">>),
     ModelText(TRUE, "list", "-", "-", <<"obj", "obj">>),
     ModelText(FALSE, "list", "-", "-", <<>>),
     ModelText(FALSE, "scalar", "-", "-", <<>>),
     ModelText(FALSE, "null", "-", "-", <<>>),
     ModelText(FALSE, "truncated", "risks", "list", <<"obj">>),
     ModelText(TRUE, "none", "-", "-", <<>>)}

\* A parsed JSON value; t = "none" is Python's None
JVal(t, key, inner, items) == [t |-> t, key |-> key, inner |-> inner, items |-> items]
PyNone == JVal("none", "-", "-", <<>>)

\* lines 46-64: json.loads of the whole text, else of the first {...} block
\* the pattern of line 57 finds, else None
extract_json(text) ==
    IF ~text.prose /\ text.top \in {"obj", "list", "scalar"}
    THEN JVal(text.top, text.key, text.inner, text.items)
    ELSE IF ~text.prose /\ text.top = "null" THEN PyNone
    ELSE IF text.top = "obj" THEN JVal("obj", text.key, text.inner, text.items)
    ELSE IF text.top \in {"list", "truncated"} /\ \E i \in DOMAIN text.items : text.items[i] = "obj"
    THEN JVal("obj", "other", "-", <<>>)        \* the first complete member
    ELSE PyNone

\* line 301: `if data`
Truthy(data) ==
    CASE data.t = "obj" -> data.key # "-"
      [] data.t = "list" -> data.items # <<>>
      [] data.t = "scalar" -> TRUE
      [] OTHER -> FALSE

\* line 303: data.get("risks", data) if isinstance(data, dict) else data
Normalize(data) ==
    IF data.t = "obj" /\ data.key = "risks"
    THEN [t |-> data.inner, items |-> data.items]
    ELSE [t |-> data.t, items |-> data.items]

\* line 306: isinstance(risks, list) and all(isinstance(r, dict) for r in risks)
IsRiskList(risks) ==
    risks.t = "list" /\ \A i \in DOMAIN risks.items : risks.items[i] = "obj"

(***************************************************************************)
(* app.py: the analysis flow                                               *)
(***************************************************************************)
\* What ollama_chat_with_retry hands to the flow with the default
\* max_retries: the response of the model, or the error it raised last
ChatOutcomes ==
    {[kind |-> "response", text |-> t, error |-> "none"] : t \in ModelTexts}
        \cup {[kind |-> "raised", text |-> ModelText(FALSE, "none", "-", "-", <<>>),
               error |-> e] : e \in ChatErrors}

NoChat == [kind |-> "none", text |-> ModelText(FALSE, "none", "-", "-", <<>>), error |-> "none"]

MsgInvalidInput == "Input validation failed"
MsgMatched == "Matched to risk pattern"
MsgNoMatch == "No exact database match found. Using AI analysis"
MsgInvalidRisks == "Invalid risk data structure"
MsgNoJson == "AI Output Error: Could not parse JSON."
MsgTimeout == "Request timed out"
MsgSystemError == "System Error"

\* san: the last call of sanitize_input; run: what the last run of the
\* handler did; fault, db: the store operation that raised inside
\* get_framework_mappings and what it returned; path: the prompt chosen;
\* shown: the messages of the run; raw_attached: the raw model text is on the
\* page; stored: the run assigned session_state.results
AppIdle ==
    [san |-> [arg |-> <<>>, out |-> None], run |-> "none", fault |-> "none",
     db |-> None, context |-> None, path |-> "none", chat |-> NoChat, shown |-> {},
     raw_attached |-> FALSE, stored |-> FALSE, results |-> None]

\* A direct call of sanitize_input, outside a session
sanitize_call ==
    /\ \E text \in Inputs :
        app' = [AppIdle EXCEPT !.san = [arg |-> text, out |-> sanitize_input(text)]]
    /\ UNCHANGED <<job, csv, crosswalk_collection, company_policies, policy_collection,
                   ret, firstLoad, lastIngested, rt>>

\* lines 296-317: STEP 5 on the response, and the two except clauses
FlowEnd(chat) ==
    LET data == extract_json(chat.text)
        risks == Normalize(data)
    IN  IF chat.kind = "raised"
        THEN [shown |-> {IF chat.error = "timeout" THEN MsgTimeout ELSE MsgSystemError},
              raw_attached |-> FALSE, stored |-> FALSE, results |-> app.results]
        ELSE IF ~Truthy(data)
        THEN [shown |-> {MsgNoJson}, raw_attached |-> TRUE, stored |-> FALSE,
              results |-> app.results]
        ELSE IF IsRiskList(risks)
        THEN [shown |-> {}, raw_attached |-> FALSE, stored |-> TRUE,
              results |-> Some(risks.items)]
        ELSE [shown |-> {MsgInvalidRisks}, raw_attached |-> FALSE, stored |-> FALSE,
              results |-> app.results]

\* lines 191-324: one press of the analyze button with a non-empty text
analysis_flow(GF, QF) ==
    \E audit_input \in Inputs \ {<<>>}, gf \in GF, qf \in QF, chat \in ChatOutcomes :
        LET clean_input == sanitize_input(audit_input)
            san == [arg |-> audit_input, out |-> clean_input]
        IN
        /\ IF clean_input = None \/ clean_input[1] = <<>>
           THEN app' = [AppIdle EXCEPT !.san = san, !.run = "rejected",
                                       !.shown = {MsgInvalidInput},
                                       !.results = app.results]
           ELSE \E g \in GetBodies(clean_input[1], DefaultThreshold, gf),
                   q \in QueryBodies(clean_input[1], qf) :
                    LET db_mappings == GetReturn(g).val
                        context == QueryReturn(q).val
                        path == IF db_mappings # None THEN "verified" ELSE "ai_only"
                        end == FlowEnd(chat)
                    IN  app' = [san |-> san, run |-> "done", fault |-> g.err,
                                db |-> db_mappings, context |-> context, path |-> path,
                                chat |-> chat,
                                shown |-> {IF path = "verified" THEN MsgMatched ELSE MsgNoMatch}
                                              \cup end.shown,
                                raw_attached |-> end.raw_attached,
                                stored |-> end.stored, results |-> end.results]
        /\ UNCHANGED <<job, csv, crosswalk_collection, company_policies, policy_collection,
                       ret, firstLoad, lastIngested, rt>>

(***************************************************************************)
(* ingest_policy and query_policy in two threads of one process            *)
(***************************************************************************)
\* The documents uploaded while queries run
ConcDocs == {DocA, DocLong, DocThree}

\* The questions asked meanwhile
ConcQuestions == {<<Tx("q_near_A", 30)>>, <<Tx("q_far", 12)>>}

\* An add that puts in one chunk per call: the first one not yet held
AddOne(coll, docs) ==
    LET missing == {i \in DOMAIN docs : \A j \in DOMAIN coll : coll[j].id # docs[i].id}
    IN  IF missing = {} THEN coll
        ELSE Append(coll, docs[CHOOSE i \in missing : \A k \in missing : i <= k])

\* lines 152-156: one add call with all the ids and documents
AddBatch(coll, docs) == CollectionAdd(coll, docs)

\* The collection that holds the kept chunks of one document and nothing else
StoreOf(doc) == CollectionAdd(<<>>, Kept(doc))

\* val: what the last query_policy returned; seen: the statement that decided
\* it; at: where the ingestion stood then; old, new: the document ingested
\* last and the one being ingested
NoOut ==
    [val |-> None, seen |-> "none", question |-> <<>>, at |-> "idle", old |-> NoDoc,
     new |-> NoDoc]

JobIdle ==
    [ingest |-> [pc |-> "idle", doc |-> NoDoc],
     query |-> [pc |-> "idle", question |-> <<>>],
     out |-> NoOut]

JobRest ==
    <<app, csv, crosswalk_collection, ret, firstLoad, rt>>

\* lines 124-138: the document is read and split, then count() is tested
ingest_begin ==
    /\ job.ingest.pc = "idle"
    /\ \E doc \in ConcDocs :
        job' = [job EXCEPT !.ingest =
                    [pc |-> IF policy_collection = "stale" THEN "idle"
                            ELSE IF Len(company_policies) > 0 THEN "delete" ELSE "add",
                     doc |-> IF policy_collection = "stale" THEN NoDoc ELSE doc]]
    /\ UNCHANGED <<company_policies, policy_collection, lastIngested>>
    /\ UNCHANGED JobRest

\* line 141: delete_collection; the global still names the deleted collection
ingest_delete ==
    /\ job.ingest.pc = "delete"
    /\ company_policies' = <<>>
    /\ policy_collection' = "stale"
    /\ job' = [job EXCEPT !.ingest.pc = "create"]
    /\ UNCHANGED lastIngested
    /\ UNCHANGED JobRest

\* line 142: get_or_create_collection, assigned to the global
ingest_create ==
    /\ job.ingest.pc = "create"
    /\ policy_collection' = "live"
    /\ job' = [job EXCEPT !.ingest.pc = "add"]
    /\ UNCHANGED <<company_policies, lastIngested>>
    /\ UNCHANGED JobRest

\* lines 144-158: the kept chunks are added and the function returns
ingest_add ==
    /\ job.ingest.pc = "add"
    /\ LET docs == Kept(job.ingest.doc)
           after == AddBatch(company_policies, docs)
           done == \A i \in DOMAIN docs : \E j \in DOMAIN after : after[j].id = docs[i].id
       IN  /\ company_policies' = after
           /\ job' = [job EXCEPT !.ingest = IF done THEN [pc |-> "idle", doc |-> NoDoc]
                                            ELSE job.ingest]
           /\ lastIngested' = IF done THEN job.ingest.doc ELSE lastIngested
    /\ UNCHANGED policy_collection
    /\ UNCHANGED JobRest

\* What a query that returns now is recorded with
Out(val, seen, question) ==
    [val |-> val, seen |-> seen, question |-> question, at |-> job.ingest.pc,
     old |-> lastIngested, new |-> job.ingest.doc]

\* lines 167-169: count() on the collection the global names
query_count ==
    /\ job.query.pc = "idle"
    /\ \E question \in ConcQuestions :
        IF policy_collection = "stale"
        THEN job' = [job EXCEPT !.out = Out(None, "stale", question)]
        ELSE IF Len(company_policies) = 0
        THEN job' = [job EXCEPT !.out = Out(None, "count", question)]
        ELSE job' = [job EXCEPT !.query = [pc |-> "query", question |-> question]]
    /\ UNCHANGED <<company_policies, policy_collection, lastIngested>>
    /\ UNCHANGED JobRest

\* lines 171-178: the query and the join; on a collection emptied since the
\* count the store raises or gives no documents, by its version
query_run ==
    /\ job.query.pc = "query"
    /\ LET question == job.query.question
           idle == [pc |-> "idle", question |-> <<>>]
       IN  IF policy_collection = "stale"
           THEN job' = [job EXCEPT !.query = idle, !.out = Out(None, "stale", question)]
           ELSE IF company_policies = <<>>
           THEN \E val \in {None, Some(<<>>)} :
                    job' = [job EXCEPT !.query = idle, !.out = Out(val, "query", question)]
           ELSE \E r \in Ranked(company_policies, question, TopK) :
                    job' = [job EXCEPT !.query = idle,
                                       !.out = Out(Some(Join([i \in DOMAIN r |->
                                                        company_policies[r[i]].document])),
                                                   "query", question)]
    /\ UNCHANGED <<company_policies, policy_collection, lastIngested>>
    /\ UNCHANGED JobRest

(***************************************************************************)
(* Specifications                                                          *)
(***************************************************************************)
\* A fresh ./chroma_db: lines 13-30 create both collections, empty
InitStores ==
    /\ crosswalk_collection = <<>>
    /\ company_policies = <<>>
    /\ policy_collection = "live"
    /\ ret = Call("init", <<>>, 0, None, FALSE, FALSE, "none", 0)
    /\ firstLoad = <<>>
    /\ lastIngested = NoDoc
    /\ rt = RtIdle
    /\ app = AppIdle
    /\ job = JobIdle

Init == csv \in CorpusFiles /\ InitStores

\* The same start in a checkout without the corpus file
InitNoCorpus == csv = NoCorpusFile /\ InitStores

NoFault == {"none"}

\* The Pattern Store: the corpus file, the loader and the resolver
NextPattern ==
    \/ load_crosswalk_db(NoFault)
    \/ EditCorpus
    \/ get_framework_mappings(NoFault)

SpecPattern == Init /\ [][NextPattern]_vars

\* The Policy Store: ingestion and retrieval, every store operation completes
NextPolicy ==
    \/ ingest_policy(NoFault)
    \/ query_policy(NoFault)

SpecPolicy == InitNoCorpus /\ [][NextPolicy]_vars

\* The Policy Store when store operations may raise
NextPolicyFault ==
    \/ ingest_policy(IngestFaults)
    \/ query_policy(QueryFaults)
    \/ ImportModule

SpecPolicyFault == InitNoCorpus /\ [][NextPolicyFault]_vars

\* Corpus updates: the loader, ingestion and the administrative reload
NextReload ==
    \/ load_crosswalk_db(NoFault)
    \/ EditCorpus
    \/ ingest_policy(NoFault)
    \/ reload_database

SpecReload == Init /\ [][NextReload]_vars

\* The analysis flow of app.py on a loaded or an empty Pattern Store
InitApp == csv = [exists |-> TRUE, rows |-> <<RowWeak, RowShared>>] /\ InitStores

NextApp ==
    \/ load_crosswalk_db(NoFault)
    \/ sanitize_call
    \/ analysis_flow(GetFaults, NoFault)

SpecApp == InitApp /\ [][NextApp]_vars

\* An upload and an analysis running unserialized in one process
NextConc ==
    \/ ingest_begin
    \/ ingest_delete
    \/ ingest_create
    \/ ingest_add
    \/ query_count
    \/ query_run

SpecConc == InitNoCorpus /\ [][NextConc]_vars

\* The calls of the generative model
NextRetry == RetryCall \/ ChatOk \/ ChatFail

SpecRetry == InitNoCorpus /\ [][NextRetry]_vars

\* The whole program, store operations free to raise.  Its parts above act on
\* disjoint state (the Pattern Store, the Policy Store, the retry frame), and
\* the claims are checked part by part.
Next ==
    \/ load_crosswalk_db(LoadFaults)
    \/ EditCorpus
    \/ get_framework_mappings(GetFaults)
    \/ ingest_policy(IngestFaults)
    \/ query_policy(QueryFaults)
    \/ ImportModule
    \/ reload_database
    \/ sanitize_call
    \/ analysis_flow(GetFaults, QueryFaults)
    \/ ingest_begin
    \/ ingest_delete
    \/ ingest_create
    \/ ingest_add
    \/ query_count
    \/ query_run
    \/ RetryCall
    \/ ChatOk
    \/ ChatFail

Spec == Init /\ [][Next]_vars

(***************************************************************************)
(* Claims                                                                  *)
(***************************************************************************)
\* The distance of the nearest entry of a collection to a text
NearestDist(coll, q) ==
    CHOOSE d \in {Dist(q, coll[i].document) : i \in DOMAIN coll} :
        \A i \in DOMAIN coll : d <= Dist(q, coll[i].document)

\* C1: on a non-empty Pattern Store, get_framework_mappings returns a record
\* exactly when the nearest pattern's distance is strictly below the
\* threshold, and the record is then that of a pattern at the nearest
\* distance, never of one ranked lower.
C1_ThresholdGate ==
    (ret.op = "get" /\ crosswalk_collection # <<>>) =>
        /\ (ret.val # None) <=> (NearestDist(crosswalk_collection, ret.arg) < ret.thr)
        /\ ret.val # None =>
            \E i \in DOMAIN crosswalk_collection :
                /\ Dist(ret.arg, crosswalk_collection[i].document)
                      = NearestDist(crosswalk_collection, ret.arg)
                /\ ret.val = Some(crosswalk_collection[i].metadata)

\* C1 witness: two patterns are loaded, the nearest is exactly at the
\* threshold, and the call returned absence.
C1_Witness ==
    /\ ret.op = "get"
    /\ Len(crosswalk_collection) = 2
    /\ NearestDist(crosswalk_collection, ret.arg) = ret.thr
    /\ ret.val = None

\* C3: the store always holds one record per row of the first load that filled
\* it, in order and under distinct ids; and a load that finds the store
\* non-empty returns success and leaves the records as they are, whatever the
\* corpus file is by then.
C3_StoreIsFirstLoad ==
    crosswalk_collection # <<>> =>
        /\ Len(crosswalk_collection) = Len(firstLoad)
        /\ \A i \in DOMAIN crosswalk_collection :
            /\ crosswalk_collection[i].document = firstLoad[i].description
            /\ crosswalk_collection[i].metadata.pattern_name = firstLoad[i].risk_pattern
            /\ crosswalk_collection[i].metadata.iso_27001 = firstLoad[i].iso_27001
        /\ \A i, j \in DOMAIN crosswalk_collection :
            i # j => crosswalk_collection[i].id # crosswalk_collection[j].id

C3_LoadIdempotent ==
    /\ []C3_StoreIsFirstLoad
    /\ []((ret.op = "load" /\ ret.was > 0) => ret.val = Some(TRUE))
    /\ [][(crosswalk_collection # <<>> /\ ret'.op = "load")
              => crosswalk_collection' = crosswalk_collection]_vars

\* C3 witness: a load found the store non-empty and the file different from the
\* rows first loaded (edited or removed), and returned success.
C3_Witness ==
    /\ ret.op = "load"
    /\ ret.was > 0
    /\ ret.arg.rows # firstLoad
    /\ ret.val = Some(TRUE)
    /\ crosswalk_collection # <<>>

\* C4: a load on an empty store with the corpus file absent returns False
\* without raising and leaves the store empty; while the store is empty every
\* get_framework_mappings call returns absence; and the store stops being
\* empty only by a load that returns True.
C4_SoftDisable ==
    /\ []((ret.op = "load" /\ ret.was = 0 /\ ~ret.arg.exists) =>
            (ret.val = Some(FALSE) /\ ~ret.raised /\ crosswalk_collection = <<>>))
    /\ []((ret.op = "get" /\ crosswalk_collection = <<>>) => (ret.val = None /\ ~ret.raised))
    /\ [][(crosswalk_collection = <<>> /\ crosswalk_collection' # <<>>) =>
            (ret'.op = "load" /\ ret'.val = Some(TRUE))]_vars

\* C4 witness: the load found no corpus file and an empty store.
C4_Witness ==
    /\ ret.op = "load"
    /\ ret.was = 0
    /\ ~ret.arg.exists
    /\ ret.val = Some(FALSE)
    /\ crosswalk_collection = <<>>

\* The documents held by a collection
Documents(coll) == {coll[i].document : i \in DOMAIN coll}

\* C2: once an ingest_policy call has returned success, every chunk the Policy
\* Store holds is a chunk of the document of the last such call; right after
\* that call the store holds chunks of that document and nothing else, also
\* when another document's chunks were there before.
C2_OnlyLastDocument ==
    lastIngested # NoDoc =>
        /\ Documents(company_policies) \subseteq Range(Chunks(lastIngested))
        /\ (ret.op = "query" /\ ret.val # None) =>
                \E s \in SeqsOver(Range(Chunks(lastIngested)), 3) : ret.val = Some(Join(s))

\* C2 witness: document B was ingested with success over the four chunks of
\* another document.
C2_Witness ==
    /\ ret.op = "ingest"
    /\ ret.arg = DocB
    /\ ret.val[1] = TRUE
    /\ ret.was = 4
    /\ company_policies # <<>>

\* C5: ingest_policy never raises; when a step raised it returns False with
\* the error's message, and it returns True only when no step raised, the
\* collection then holding the document's kept chunks under a live handle.
C5_NeverRaises ==
    ret.op = "ingest" =>
        /\ ~ret.raised
        /\ ret.fault # "none" => ret.val = <<FALSE, [text |-> ret.fault, n |-> 0]>>
        /\ ret.val[1] = TRUE =>
            /\ ret.fault = "none"
            /\ company_policies = Kept(ret.arg)
            /\ policy_collection = "live"

\* C5 witness: the collection was deleted and creating it again raised.
C5_Witness ==
    /\ ret.op = "ingest"
    /\ ret.fault = "create"
    /\ ret.val[1] = FALSE
    /\ ~ret.raised

\* C6: an ingest_policy call that returns failure leaves the Policy Store as
\* it was before the call or empty: as it was when opening or extracting the
\* document failed, empty when recreating the collection or adding failed.
C6_FailureLeavesPriorOrEmpty ==
    [][(ret'.op = "ingest" /\ ret'.val[1] = FALSE) =>
          /\ company_policies' = company_policies \/ company_policies' = <<>>
          /\ ret'.fault \in {"open", "extract"} => company_policies' = company_policies
          /\ ret'.fault \in {"create", "add"} => company_policies' = <<>>]_vars

\* C6 witness: adding the new chunks failed after the previous document's
\* chunks were deleted.
C6_Witness ==
    /\ ret.op = "ingest"
    /\ ret.val[1] = FALSE
    /\ ret.fault = "add"
    /\ ret.was > 0
    /\ Len(Kept(ret.arg)) > 1
    /\ company_policies = <<>>

\* C7: a successful ingest_policy stores exactly the chunks of the split text
\* that are not shorter than 50 characters, a chunk of exactly 50 characters
\* included; the scenario document leaves exactly one chunk stored.
C7_KeepsChunksOfMinLen ==
    (ret.op = "ingest" /\ ret.val[1] = TRUE) =>
        /\ Documents(company_policies) =
              {c \in Range(Chunks(ret.arg)) : ~(TextLen(Strip(c)) < 50)}
        /\ ret.arg = DocScenario => Len(company_policies) = 1

\* C8: ingesting a readable document all of whose chunks are shorter than 50
\* characters returns (True, "Ingested 0 policy sections") and leaves the Policy
\* Store empty, whatever it held before.
C8_AllChunksFiltered ==
    (/\ ret.op = "ingest"
     /\ ret.arg.readable
     /\ \A i \in DOMAIN ret.arg.pages : ret.arg.pages[i].kind # "raise"
     /\ \A c \in Range(Chunks(ret.arg)) : TextLen(Strip(c)) < 50)
        => (/\ ret.val = <<TRUE, [text |-> "Ingested", n |-> 0]>>
            /\ ~ret.raised
            /\ company_policies = <<>>)

\* C8 witness: such a document was ingested over a store that held chunks.
C8_Witness ==
    /\ ret.op = "ingest"
    /\ ret.arg = DocShort
    /\ ret.was > 0
    /\ ret.val[1] = TRUE
    /\ company_policies = <<>>

\* C9: query_policy returns absence on an empty Policy Store; otherwise it
\* returns the texts of min(3, size) distinct chunks, nearest first, none of
\* the chunks left out being nearer than one returned, joined by a blank
\* line, whatever their distance; with one chunk stored that chunk's text is
\* the answer to every question.
C9_TopThreeJoined ==
    ret.op = "query" =>
        /\ company_policies = <<>> => ret.val = None
        /\ company_policies # <<>> =>
            \E s \in SeqsOver(DOMAIN company_policies, 3) :
                /\ Len(s) = Min(3, Len(company_policies))
                /\ \A i, j \in DOMAIN s : i < j =>
                    /\ s[i] # s[j]
                    /\ Dist(ret.arg, company_policies[s[i]].document)
                          <= Dist(ret.arg, company_policies[s[j]].document)
                /\ \A i \in DOMAIN s, o \in DOMAIN company_policies \ Range(s) :
                    Dist(ret.arg, company_policies[s[i]].document)
                          <= Dist(ret.arg, company_policies[o].document)
                /\ ret.val = Some(Join([i \in DOMAIN s |-> company_policies[s[i]].document]))
        /\ Len(company_policies) = 1 => ret.val = Some(company_policies[1].document)

\* C9 witness: four chunks are stored and the nearest of the three returned
\* is farther than the resolver's threshold.
C9_Witness ==
    /\ ret.op = "query"
    /\ Len(company_policies) = 4
    /\ ret.val # None
    /\ \A i \in DOMAIN company_policies :
        Dist(ret.arg, company_policies[i].document) > DefaultThreshold

\* C10: a call of ollama_chat_with_retry makes at most max_retries model
\* calls, each with the model, messages and options it was given; the k-th
\* failed call that is not the last is followed by a wait of 2^(k-1) seconds
\* and no other wait is made; a successful call is the last one, and the call
\* that fails at the ceiling is the last one.
C10_BoundedBackoff ==
    /\ Len(rt.calls) <= rt.max_retries
    /\ \A i \in DOMAIN rt.calls :
        /\ rt.calls[i].model = rt.args.model
        /\ rt.calls[i].messages = rt.args.messages
        /\ rt.calls[i].options = rt.args.options
    /\ \A k \in DOMAIN rt.sleeps : rt.sleeps[k] = 2 ^ (k - 1)
    /\ Len(rt.sleeps) =
          Cardinality({k \in DOMAIN rt.errors : k < rt.max_retries})
    /\ Len(rt.calls) \in {Len(rt.errors), Len(rt.errors) + 1}
    /\ Len(rt.calls) = Len(rt.errors) + 1 => (rt.pc = "returned" /\ rt.out # None)
    /\ Len(rt.errors) = rt.max_retries /\ rt.max_retries > 0 => rt.pc = "raised"
    /\ rt.pc = "loop" => Len(rt.calls) = rt.attempt

\* C10 witness: with the default ceiling of 3 all three calls failed, after
\* waits of 1 s and 2 s.
C10_Witness ==
    /\ rt.pc = "raised"
    /\ rt.max_retries = OLLAMA_MAX_RETRIES
    /\ Len(rt.calls) = 3
    /\ rt.sleeps = <<1, 2>>

\* C11: a call of ollama_chat_with_retry ends in one of two ways, whatever
\* max_retries is: it returns the response of its one successful model call,
\* the last call it made, or it raises the error of its last model call after
\* max_retries failed calls; it never returns without a response.
C11_ReturnsResponseOrRaisesLast ==
    /\ rt.pc = "returned" =>
        /\ rt.out # None
        /\ rt.out[1] \in Responses
        /\ Len(rt.calls) = Len(rt.errors) + 1
    /\ rt.pc = "raised" =>
        /\ Len(rt.errors) = rt.max_retries
        /\ rt.out = Some(rt.errors[Len(rt.errors)])

\* C13: on an empty Pattern Store get_framework_mappings returns absence for
\* every finding and threshold, and no similarity query is issued.
C13_EmptyStoreNoQuery ==
    (ret.op = "get" /\ ret.was = 0) => (ret.val = None /\ ~ret.queried /\ ~ret.raised)

\* C13 witness: the resolver was called on the empty store with a finding that
\* a loaded corpus would match.
C13_Witness ==
    /\ ret.op = "get"
    /\ ret.was = 0
    /\ crosswalk_collection = <<>>
    /\ Embed(ret.arg) = 0
    /\ ret.thr = DefaultThreshold
    /\ ret.val = None

\* The rows of the loaded store whose description is the finding of the last
\* resolution at the default threshold
OwnRows ==
    IF ret.op = "get" /\ ret.fault = "none" /\ ret.thr = DefaultThreshold
    THEN {i \in DOMAIN firstLoad : firstLoad[i].description = ret.arg}
    ELSE {}

\* C14 as stated: for every loaded pattern P, get_framework_mappings(
\* P.description) at the default threshold returns a record whose pattern_name
\* is P.pattern_name, also when another loaded pattern has the same
\* description.
C14_ReturnsOwnPattern ==
    \A i \in OwnRows :
        /\ ret.val # None
        /\ ret.val[1].pattern_name = firstLoad[i].risk_pattern

\* C14 amended: for every loaded pattern P, get_framework_mappings(
\* P.description) at the default threshold returns the record of a loaded
\* pattern whose description is at distance 0 from P.description; it is P's
\* own record whenever no other loaded pattern has a description at distance 0
\* from P.description.
C14_ReturnsNearestPattern ==
    \A i \in OwnRows :
        /\ ret.val # None
        /\ \E j \in DOMAIN firstLoad :
            /\ ret.val[1] = RowEntry(firstLoad, j).metadata
            /\ Dist(ret.arg, firstLoad[j].description) = 0
        /\ (\A k \in DOMAIN firstLoad \ {i} :
                Dist(firstLoad[k].description, firstLoad[i].description) > 0)
            => ret.val[1].pattern_name = firstLoad[i].risk_pattern

\* C14 witness: two loaded patterns share the description that was resolved,
\* and the record of the second one came back.
C14_Witness ==
    /\ OwnRows = {1, 2}
    /\ Len(crosswalk_collection) = 2
    /\ ret.val # None
    /\ ret.val[1].pattern_name = firstLoad[2].risk_pattern

\* C18: after the administrative reload, from any prior state, the Pattern
\* Store holds exactly one record per row of the current corpus and the
\* Policy Store is empty; when the corpus is absent the reload reports
\* failure and both stores are empty.
C18_ReloadRebuilds ==
    ret.op = "reload" =>
        /\ Len(crosswalk_collection) = Len(ret.arg.rows)
        /\ \A i \in DOMAIN crosswalk_collection :
            crosswalk_collection[i] = RowEntry(ret.arg.rows, i)
        /\ company_policies = <<>>
        /\ ~ret.arg.exists => (ret.val = Some(FALSE) /\ crosswalk_collection = <<>>)

\* C18 witness: the reload found a store of one record, loaded from an older
\* corpus, and left the two records of the current corpus.
C18_Witness ==
    /\ ret.op = "reload"
    /\ ret.was = 1
    /\ Len(ret.arg.rows) = 2
    /\ Len(crosswalk_collection) = 2
    /\ ret.val = Some(TRUE)

\* C12: the outcome of resolving a finding reaches the analysis flow as one of
\* three states: a verified match takes the verified path, a NoMatch (empty
\* store or threshold rejection) takes the AI-only path with its warning, and
\* a failure of the store's count or query is never reported as a NoMatch
\* that takes the AI-only path.
C12_ErrorIsNotNoMatch ==
    app.run = "done" =>
        /\ app.db # None => (app.path = "verified" /\ MsgMatched \in app.shown)
        /\ (app.fault = "none" /\ app.db = None)
            => (app.path = "ai_only" /\ MsgNoMatch \in app.shown)
        /\ app.fault # "none" => (app.path # "ai_only" /\ MsgNoMatch \notin app.shown)

\* C15: sanitize_input returns None for every input that is empty, only
\* whitespace or longer than MAX_INPUT_LENGTH, accepts an input of exactly
\* MAX_INPUT_LENGTH non-whitespace characters, and never returns an empty
\* string.
C15_RejectsEmptyBlankAndLong ==
    LET text == app.san.arg
        out == app.san.out
    IN  /\ (text = <<>> \/ Strip(text) = <<>> \/ TextLen(text) > MAX_INPUT_LENGTH)
            => out = None
        /\ (TextLen(text) = MAX_INPUT_LENGTH
                /\ \A i \in DOMAIN text : ~IsSpace(text[i]) /\ text[i].tag # "ctl")
            => out # None
        /\ out # None => out[1] # <<>>

\* C16: whenever the text of the generative model does not yield a valid list
\* of risk records, the analysis flow shows an error with the raw model text
\* attached and does not store the output as results.
C16_MalformedOutputSurfaced ==
    (/\ app.run = "done"
     /\ app.chat.kind = "response"
     /\ ~(Truthy(extract_json(app.chat.text))
            /\ IsRiskList(Normalize(extract_json(app.chat.text)))))
        => /\ app.shown \cap {MsgNoJson, MsgInvalidRisks} # {}
           /\ app.raw_attached
           /\ ~app.stored

\* C17: whatever the interleaving of a query_policy with an ingest_policy, the
\* text the query returns is the join of the nearest chunks of a whole
\* corpus: of the document ingested before, of the document being ingested, or
\* of the empty corpus between the delete and the add; it is never made from
\* a part of a document's chunks or from chunks of both.
C17_WholeDocumentOrEmpty ==
    job.out.seen # "none" =>
        \/ job.out.val = None
        \/ \E D \in {<<>>, StoreOf(job.out.old), StoreOf(job.out.new)} :
            \E r \in Ranked(D, job.out.question, TopK) :
                job.out.val = Some(Join([i \in DOMAIN r |-> D[r[i]].document]))

\* C17 witness: a query returned absence on a count of 0 taken after the
\* delete and before the add, although the document ingested before and the
\* one being ingested both have chunks that qualify.
C17_Witness ==
    /\ job.out.seen = "count"
    /\ job.out.val = None
    /\ job.out.at = "add"
    /\ Kept(job.out.old) # <<>>
    /\ Kept(job.out.new) # <<>>
    /\ job.out.old # job.out.new

====
